---- MODULE Spec2Model ----
(***************************************************************************)
(* The Lore record store (src/storage.rs, src/models.rs): a hidden         *)
(* directory <root>/.lore holding index.json, config.json and one JSON     *)
(* file per record under entries/.  Every filesystem call of the code is   *)
(* one step of the process that makes it, so that invocations of the tool  *)
(* running at the same time interleave exactly where the code lets them.   *)
(*                                                                         *)
(* Strings that the code inspects (paths, searched text) are sequences of  *)
(* one-character strings.  Option<T> is a sequence of length 0 or 1.       *)
(* A Result is a record with a boolean field ok.                           *)
(***************************************************************************)
EXTENDS Integers, Sequences, FiniteSets, TLC

\* ------------------------------------------------------------------ bounds
\* uuids handed out to records in the single-writer specification
MaxSaves == 2
\* distinct clock readings a record's timestamp can take there
MaxTime == 2
\* uuids handed out, and clock readings, in the ordering specification
MaxSortSaves == 3
MaxSortTime == 3
\* tool invocations running at the same time
NumProcs == 2
\* uuids handed out in the concurrent specification
MaxConcSaves == 2
\* uuids handed out in the round-trip specification
MaxShapeSaves == 1
\* uuids handed out in the default agent specification
MaxAgentSaves == 1
\* length of the path strings that are normalized
MaxPathLen == 5
\* how far from 0 and from the window sizes the lengths around a match range
MaxSlack == 2
\* uuids handed out in the search specification
MaxSearchSaves == 2
\* uuids handed out in the specification with foreign files
MaxForeignSaves == 2

Procs == 1..NumProcs

\* depth of the directories store discovery starts from
MaxDepth == 2
\* directories that hold a .lore when store discovery runs
MaxStores == 2

\* uuids handed out and latest timestamp in the search order specification
MaxOrderSaves == 3
MaxOrderTime == 2

\* uuids handed out in the specification with failing writes
MaxFaultSaves == 2

\* uuids handed out in the specification of the commands
MaxCommandSaves == 2

\* ------------------------------------------------------- Option and Result
None == <<>>
Some(v) == <<v>>

Ok(v) == [ok |-> TRUE, val |-> v]
Err(e) == [ok |-> FALSE, err |-> e]

\* StorageError variants
NotInitialized == "NotInitialized"
AlreadyInitialized == "AlreadyInitialized"
IoError == "Io"
JsonError == "Json"
FileNotFound == "FileNotFound"

\* ------------------------------------------------------------ file content
\* A file that has been created or truncated and not yet written holds no
\* bytes; serde_json rejects it.  A written file holds one JSON document.
EmptyFile == [kind |-> "empty"]
JsonFile(doc) == [kind |-> "json", doc |-> doc]
\* A file that is absent
NoFile == [kind |-> "absent"]
\* Bytes that are no JSON document: what is left when a writer overwrites
\* the head of a longer document that another writer put there meanwhile
CorruptFile == [kind |-> "corrupt"]

\* Bytes that are not UTF-8 text
BytesFile == [kind |-> "bytes"]

\* fs::read_to_string: an error when the bytes are not UTF-8
read_to_string(content) == IF content.kind = "bytes" THEN Err(IoError) ELSE Ok(content)

\* write_all on a descriptor opened by fs::write or File::create: the file
\* is still empty unless another process wrote it after this one truncated
\* it; then the new bytes replace the old ones or only their head,
\* depending on the two lengths
WriteAll(old, new) == IF old.kind = "empty" THEN {new} ELSE {new, CorruptFile}

\* ------------------------------------------------------------------ strings
RECURSIVE StartsWith(_, _)
StartsWith(s, prefix) ==
    IF prefix = <<>> THEN TRUE
    ELSE IF s = <<>> THEN FALSE
    ELSE Head(s) = Head(prefix) /\ StartsWith(Tail(s), Tail(prefix))

RECURSIVE Drop(_, _)
Drop(s, n) == IF n = 0 \/ s = <<>> THEN s ELSE Drop(Tail(s), n - 1)

\* str::contains
RECURSIVE Contains(_, _)
Contains(s, pat) ==
    IF StartsWith(s, pat) THEN TRUE
    ELSE IF s = <<>> THEN FALSE
    ELSE Contains(Tail(s), pat)

\* char::to_lowercase of the characters the model uses
LowerChar(c) ==
    CASE c = "A" -> <<"a">>
      [] c = "J" -> <<"j">>
      [] c = "W" -> <<"w">>
      [] c = "T" -> <<"t">>
      [] c = "F" -> <<"f">>
      [] c = "O" -> <<"o">>
      [] c = "X" -> <<"x">>
      [] c = "U+0130" -> <<"i", "U+0307">>
      [] OTHER -> <<c>>

\* The characters of the model that have a case, and those that a word may
\* hold without ending (Unicode Cased and Case_Ignorable)
Cased ==
    {"A", "J", "W", "T", "F", "O", "X", "Σ", "U+0130",
     "a", "j", "w", "t", "f", "o", "x", "σ", "ς", "i", "é", "b", "h", "q", "u", "y", "z"}
Case_Ignorable == {".", "'", "U+0307"}

\* iter.skip_while(Case_Ignorable).next() is a cased character
RECURSIVE case_ignorable_then_cased(_)
case_ignorable_then_cased(chars) ==
    IF chars = <<>> THEN FALSE
    ELSE IF Head(chars) \in Case_Ignorable THEN case_ignorable_then_cased(Tail(chars))
    ELSE Head(chars) \in Cased

Reversed(s) == [i \in 1..Len(s) |-> s[Len(s) + 1 - i]]

\* A capital sigma becomes the final sigma at the end of a word
map_uppercase_sigma(s, i) ==
    IF /\ case_ignorable_then_cased(Reversed(SubSeq(s, 1, i - 1)))
       /\ ~case_ignorable_then_cased(SubSeq(s, i + 1, Len(s)))
    THEN <<"ς">> ELSE <<"σ">>

\* The lowercase of the characters lo..hi of s, one half after the other
RECURSIVE LowerFrom(_, _, _)
LowerFrom(s, lo, hi) ==
    IF lo > hi THEN <<>>
    ELSE IF lo = hi
         THEN (IF s[lo] = "Σ" THEN map_uppercase_sigma(s, lo) ELSE LowerChar(s[lo]))
    ELSE LowerFrom(s, lo, (lo + hi) \div 2) \o LowerFrom(s, (lo + hi) \div 2 + 1, hi)

\* str::to_lowercase
to_lowercase(s) == LowerFrom(s, 1, Len(s))

\* A trim that removes the prefix once
trim_start_once(s, pat) ==
    IF pat /= <<>> /\ StartsWith(s, pat) THEN Drop(s, Len(pat)) ELSE s

\* str::trim_start_matches("./"): removes the prefix as often as it repeats
RECURSIVE trim_start_matches(_, _)
trim_start_matches(s, pat) ==
    IF pat /= <<>> /\ StartsWith(s, pat)
    THEN trim_start_matches(Drop(s, Len(pat)), pat)
    ELSE s

\* str::replace('\\', "/")
replace(s, from, to) == [i \in 1..Len(s) |-> IF s[i] = from THEN to ELSE s[i]]

normalize_path(path) ==
    replace(trim_start_matches(path, <<".", "/">>), "\\", "/")

\* ------------------------------------------------------------------ records
\* Names of the fields of ThoughtObject that are always serialized
RequiredKeys ==
    {"id", "target_file", "file_hash", "agent_id", "timestamp", "intent",
     "reasoning_trace"}

\* ThoughtObject::new: the builder fields start absent or empty
ThoughtObject_new(id, target_file, file_hash, agent_id, timestamp, intent, reasoning_trace) ==
    [id |-> id, target_file |-> target_file, line_range |-> None,
     file_hash |-> file_hash, commit_hash |-> None, agent_id |-> agent_id,
     timestamp |-> timestamp, intent |-> intent,
     reasoning_trace |-> reasoning_trace, rejected_alternatives |-> <<>>,
     tags |-> <<>>]

with_line_range(e, start, end) == [e EXCEPT !.line_range = Some(<<start, end>>)]
with_commit(e, commit_hash) == [e EXCEPT !.commit_hash = Some(commit_hash)]
with_rejected(e, alternatives) == [e EXCEPT !.rejected_alternatives = alternatives]
with_tags(e, tags) == [e EXCEPT !.tags = tags]

\* A JSON object is a function from its keys to their values.
EmptyObject == [k \in {} |-> None]
Field(present, key, value) == IF present THEN key :> value ELSE EmptyObject

\* A serializer that skips the reason always, not only when it is None
AltToJsonSkipReason(alt) == "name" :> alt.name

\* Serialize for RejectedAlternative: reason is skipped when None
AltToJson(alt) ==
    ("name" :> alt.name) @@ Field(alt.reason /= None, "reason", alt.reason[1])

\* Deserialize for RejectedAlternative
AltFromJson(doc) ==
    [name |-> doc["name"],
     reason |-> IF "reason" \in DOMAIN doc THEN Some(doc["reason"]) ELSE None]

\* Serialize for ThoughtObject: the skip_serializing_if rules
ToJson(e) ==
    [id |-> e.id, target_file |-> e.target_file, file_hash |-> e.file_hash,
     agent_id |-> e.agent_id, timestamp |-> e.timestamp, intent |-> e.intent,
     reasoning_trace |-> e.reasoning_trace]
    @@ Field(e.line_range /= None, "line_range", e.line_range[1])
    @@ Field(e.commit_hash /= None, "commit_hash", e.commit_hash[1])
    @@ Field(e.rejected_alternatives /= <<>>, "rejected_alternatives",
             [i \in 1..Len(e.rejected_alternatives) |->
                 AltToJson(e.rejected_alternatives[i])])
    @@ Field(e.tags /= <<>>, "tags", e.tags)

\* Deserialize for ThoughtObject: a missing required key is an error, a
\* missing Option is None, a missing serde(default) vector is empty
FromJson(doc) ==
    IF ~(RequiredKeys \subseteq DOMAIN doc) THEN Err(JsonError)
    ELSE Ok([id |-> doc["id"], target_file |-> doc["target_file"],
             line_range |-> IF "line_range" \in DOMAIN doc
                            THEN Some(doc["line_range"]) ELSE None,
             file_hash |-> doc["file_hash"],
             commit_hash |-> IF "commit_hash" \in DOMAIN doc
                             THEN Some(doc["commit_hash"]) ELSE None,
             agent_id |-> doc["agent_id"], timestamp |-> doc["timestamp"],
             intent |-> doc["intent"],
             reasoning_trace |-> doc["reasoning_trace"],
             rejected_alternatives |->
                 IF "rejected_alternatives" \in DOMAIN doc
                 THEN [i \in 1..Len(doc["rejected_alternatives"]) |->
                          AltFromJson(doc["rejected_alternatives"][i])]
                 ELSE <<>>,
             tags |-> IF "tags" \in DOMAIN doc THEN doc["tags"] ELSE <<>>])

\* serde_json::from_str::<ThoughtObject> of a file's content
ParseEntry(content) ==
    IF content.kind = "json" THEN FromJson(content.doc) ELSE Err(JsonError)

\* An insertion that takes a record with an equal timestamp for the same one
RECURSIVE InsertDescUnique(_, _)
InsertDescUnique(sorted, e) ==
    IF sorted = <<>> THEN <<e>>
    ELSE IF Head(sorted).timestamp = e.timestamp THEN sorted
    ELSE IF Head(sorted).timestamp > e.timestamp
         THEN <<Head(sorted)>> \o InsertDescUnique(Tail(sorted), e)
         ELSE <<e>> \o sorted

\* entries.sort_by(|a, b| b.timestamp.cmp(&a.timestamp)): a stable sort,
\* newest first; records with equal timestamps keep their relative order
RECURSIVE InsertDesc(_, _)
InsertDesc(sorted, e) ==
    IF sorted = <<>> THEN <<e>>
    ELSE IF Head(sorted).timestamp >= e.timestamp
         THEN <<Head(sorted)>> \o InsertDesc(Tail(sorted), e)
         ELSE <<e>> \o sorted

RECURSIVE SortFrom(_, _)
SortFrom(sorted, rest) ==
    IF rest = <<>> THEN sorted
    ELSE SortFrom(InsertDesc(sorted, Head(rest)), Tail(rest))

\* The sort left out
sort_left_out(entries) == entries

sort_by_timestamp_desc(entries) == SortFrom(<<>>, entries)

\* -------------------------------------------------------------------- index
LoreIndex_new == [files |-> EmptyObject, entry_count |-> 0]

\* add_entry that counts the keys, not the ids
add_entry_counts_keys(index, file_path, entry_id) ==
    [files |->
        (file_path :>
            Append(IF file_path \in DOMAIN index.files
                   THEN index.files[file_path] ELSE <<>>, entry_id))
        @@ index.files,
     entry_count |-> IF file_path \in DOMAIN index.files
                     THEN index.entry_count ELSE index.entry_count + 1]

\* add_entry that forgets the running total
add_entry_no_count(index, file_path, entry_id) ==
    [files |->
        (file_path :>
            Append(IF file_path \in DOMAIN index.files
                   THEN index.files[file_path] ELSE <<>>, entry_id))
        @@ index.files,
     entry_count |-> index.entry_count]

\* LoreIndex::add_entry
add_entry(index, file_path, entry_id) ==
    [files |->
        (file_path :>
            Append(IF file_path \in DOMAIN index.files
                   THEN index.files[file_path] ELSE <<>>, entry_id))
        @@ index.files,
     entry_count |-> index.entry_count + 1]

\* LoreIndex::get_entries_for_file
index_get_entries_for_file(index, file_path) ==
    IF file_path \in DOMAIN index.files THEN Some(index.files[file_path])
    ELSE None

\* Serialize / Deserialize for LoreIndex: both fields are required
IndexToJson(index) == ("files" :> index.files) @@ ("entry_count" :> index.entry_count)

IndexFromJson(doc) ==
    IF ~({"files", "entry_count"} \subseteq DOMAIN doc) THEN Err(JsonError)
    ELSE Ok([files |-> doc["files"], entry_count |-> doc["entry_count"]])

\* -------------------------------------------------------------------- state
VARIABLES
    loreDir,        \* <root>/.lore exists
    entriesDir,     \* <root>/.lore/entries exists
    indexFile,      \* content of .lore/index.json
    configFile,     \* content of .lore/config.json
    gitignoreFile,  \* .lore/.gitignore exists
    entryFiles,     \* files of .lore/entries: file name -> content
    pc,             \* per process: the next filesystem call it makes
    cur,            \* per process: the operation it runs or ran last
    ret,            \* per process: what that operation returned
    localIndex,     \* per process: the `index` local of save_entry
    nextId,         \* uuids generated so far
    saved,          \* records whose save_entry returned Ok
    inited          \* agent ids of the calls of init that returned Ok

store == <<loreDir, entriesDir, indexFile, configFile, gitignoreFile, entryFiles>>
vars == <<loreDir, entriesDir, indexFile, configFile, gitignoreFile, entryFiles, pc, cur, ret, localIndex, nextId, saved, inited>>

NoResult == [ok |-> FALSE, err |-> "none"]
NoOp == [op |-> "none"]

Init ==
    /\ loreDir = FALSE
    /\ entriesDir = FALSE
    /\ indexFile = NoFile
    /\ configFile = NoFile
    /\ gitignoreFile = FALSE
    /\ entryFiles = EmptyObject
    /\ pc = [p \in Procs |-> "idle"]
    /\ cur = [p \in Procs |-> NoOp]
    /\ ret = [p \in Procs |-> NoResult]
    /\ localIndex = [p \in Procs |-> LoreIndex_new]
    /\ nextId = 0
    /\ saved = {}
    /\ inited = {}

\* ------------------------------------------------------ the store, read side
\* A file name that does not depend on the id
EntryFileNameFixed(id) == <<0, "json">>

\* entries_dir().join(format!("{}.json", id)): file stem and extension
EntryFileName(id) == <<id, "json">>

is_initialized == loreDir

load_index ==
    IF ~is_initialized THEN Err(NotInitialized)
    ELSE IF indexFile.kind = "absent" THEN Ok(LoreIndex_new)
    ELSE IF indexFile.kind = "json" THEN IndexFromJson(indexFile.doc)
    ELSE Err(JsonError)

\* load_entry without the is_initialized test
load_entry_unchecked(id) ==
    IF EntryFileName(id) \notin DOMAIN entryFiles THEN Err(FileNotFound)
    ELSE ParseEntry(entryFiles[EntryFileName(id)])

\* load_entry that reports a file it cannot use as a missing one
load_entry_lenient(id) ==
    IF ~is_initialized THEN Err(NotInitialized)
    ELSE IF EntryFileName(id) \notin DOMAIN entryFiles THEN Err(FileNotFound)
    ELSE IF ~ParseEntry(entryFiles[EntryFileName(id)]).ok THEN Err(FileNotFound)
    ELSE ParseEntry(entryFiles[EntryFileName(id)])

load_entry(id) ==
    IF ~is_initialized THEN Err(NotInitialized)
    ELSE IF EntryFileName(id) \notin DOMAIN entryFiles THEN Err(FileNotFound)
    ELSE IF ~read_to_string(entryFiles[EntryFileName(id)]).ok
         THEN read_to_string(entryFiles[EntryFileName(id)])
    ELSE ParseEntry(entryFiles[EntryFileName(id)])

\* A load of the first listed id only
LoadFirst(ids) ==
    IF ids = <<>> \/ ~load_entry(Head(ids)).ok THEN <<>> ELSE <<load_entry(Head(ids)).val>>

\* ids.iter().filter_map(|id| self.load_entry(id).ok()).collect()
RECURSIVE LoadAll(_)
LoadAll(ids) ==
    IF ids = <<>> THEN <<>>
    ELSE (IF load_entry(Head(ids)).ok THEN <<load_entry(Head(ids)).val>> ELSE <<>>)
         \o LoadAll(Tail(ids))

\* get_entries_for_file that looks the path up as given
get_entries_for_file_raw(file_path) ==
    IF ~load_index.ok THEN load_index
    ELSE LET ids == index_get_entries_for_file(load_index.val, file_path)
             entries == IF ids = None THEN <<>> ELSE LoadAll(ids[1])
         IN  Ok(sort_by_timestamp_desc(entries))

\* get_entries_for_file that reports a path without an index entry
get_entries_for_file_strict(file_path) ==
    IF ~load_index.ok THEN load_index
    ELSE LET normalized == normalize_path(file_path)
             ids == index_get_entries_for_file(load_index.val, normalized)
         IN  IF ids = None THEN Err(FileNotFound)
             ELSE Ok(sort_by_timestamp_desc(LoadAll(ids[1])))

get_entries_for_file(file_path) ==
    IF ~load_index.ok THEN load_index
    ELSE LET normalized == normalize_path(file_path)
             ids == index_get_entries_for_file(load_index.val, normalized)
             entries == IF ids = None THEN <<>> ELSE LoadAll(ids[1])
         IN  Ok(sort_by_timestamp_desc(entries))

\* The orders in which fs::read_dir may list the entries directory
ReadDirOrders ==
    {o \in [1..Cardinality(DOMAIN entryFiles) -> DOMAIN entryFiles] :
        \A i, j \in DOMAIN o : i /= j => o[i] /= o[j]}

\* The loop of get_all_entries over the listing `order`
RECURSIVE ScanEntries(_)
ScanEntries(order) ==
    IF order = <<>> THEN <<>>
    ELSE (IF Head(order)[2] = "json" /\ ParseEntry(entryFiles[Head(order)]).ok
          THEN <<ParseEntry(entryFiles[Head(order)]).val>> ELSE <<>>)
         \o ScanEntries(Tail(order))

\* get_all_entries, line 190: the read of a *.json file is followed by `?`
get_all_entries(order) ==
    IF ~is_initialized THEN Err(NotInitialized)
    ELSE IF ~entriesDir THEN Err(IoError)
    ELSE IF \E i \in DOMAIN order :
                order[i][2] = "json" /\ ~read_to_string(entryFiles[order[i]]).ok
         THEN Err(IoError)
    ELSE Ok(sort_by_timestamp_desc(ScanEntries(order)))

\* The filter closure of search
Matches(entry, query_lower) ==
    \/ Contains(to_lowercase(entry.intent), query_lower)
    \/ Contains(to_lowercase(entry.reasoning_trace), query_lower)
    \/ \E i \in DOMAIN entry.rejected_alternatives :
          Contains(to_lowercase(entry.rejected_alternatives[i].name), query_lower)
    \/ \E i \in DOMAIN entry.tags :
          Contains(to_lowercase(entry.tags[i]), query_lower)

\* A search that leaves the matches in the order the directory was read in
search_in_read_order(query, order) ==
    IF ~get_all_entries(order).ok THEN get_all_entries(order)
    ELSE Ok(SelectSeq(ScanEntries(order), LAMBDA e : Matches(e, to_lowercase(query))))

search(query, order) ==
    IF ~get_all_entries(order).ok THEN get_all_entries(order)
    ELSE Ok(SelectSeq(get_all_entries(order).val,
                      LAMBDA e : Matches(e, to_lowercase(query))))

get_default_agent_id ==
    IF configFile.kind = "absent" THEN Ok("unknown")
    ELSE IF configFile.kind /= "json" THEN Err(JsonError)
    ELSE IF "default_agent_id" \in DOMAIN configFile.doc
         THEN Ok(configFile.doc["default_agent_id"])
         ELSE Ok("unknown")

\* ----------------------------------------------------- the store, write side
Goto(p, label) == pc' = [pc EXCEPT ![p] = label]
Return(p, result) == ret' = [ret EXCEPT ![p] = result] /\ Goto(p, "idle")
Invoke(p, call) == pc[p] = "idle" /\ cur' = [cur EXCEPT ![p] = call]

\* Initialize without the is_initialized test
InitializeUnchecked(p, agent_id) ==
    /\ Invoke(p, [op |-> "Initialize", agent_id |-> agent_id])
    /\ ret' = [ret EXCEPT ![p] = NoResult] /\ Goto(p, "init_create_lore_dir")
    /\ UNCHANGED <<store, localIndex, nextId, saved, inited>>

\* init, line 64: the is_initialized test
Initialize(p, agent_id) ==
    /\ Invoke(p, [op |-> "Initialize", agent_id |-> agent_id])
    /\ IF is_initialized
       THEN Return(p, Err(AlreadyInitialized))
       ELSE ret' = [ret EXCEPT ![p] = NoResult] /\ Goto(p, "init_create_lore_dir")
    /\ UNCHANGED <<store, localIndex, nextId, saved, inited>>

\* init, line 69: create_dir_all makes .lore, then .lore/entries
InitCreateLoreDir(p) ==
    /\ pc[p] = "init_create_lore_dir"
    /\ loreDir' = TRUE
    /\ Goto(p, "init_create_entries_dir")
    /\ UNCHANGED <<entriesDir, indexFile, configFile, gitignoreFile, entryFiles, cur, ret, localIndex, nextId, saved, inited>>

InitCreateEntriesDir(p) ==
    /\ pc[p] = "init_create_entries_dir"
    /\ entriesDir' = TRUE
    /\ localIndex' = [localIndex EXCEPT ![p] = LoreIndex_new]
    /\ Goto(p, "init_index_create")
    /\ UNCHANGED <<loreDir, indexFile, configFile, gitignoreFile, entryFiles, cur, ret, nextId, saved, inited>>

\* save_index: fs::write opens index.json truncating it ...
save_index_create(p, next) ==
    /\ indexFile' = EmptyFile
    /\ Goto(p, next)
    /\ UNCHANGED <<loreDir, entriesDir, configFile, gitignoreFile, entryFiles, cur, ret, localIndex, nextId, saved, inited>>

\* An index rebuilt from a scan of the records directory
RECURSIVE IndexOf(_)
IndexOf(entries) ==
    IF entries = <<>> THEN LoreIndex_new
    ELSE add_entry(IndexOf(Tail(entries)), Head(entries).target_file, Head(entries).id)

\* save_index that writes an index of the record files it finds
save_index_write_scanned(p) ==
    indexFile' = JsonFile(IndexToJson(IndexOf(ScanEntries(CHOOSE order \in ReadDirOrders : TRUE))))

\* ... and then writes the whole serialized index of the caller
save_index_write(p) ==
    \E content \in WriteAll(indexFile, JsonFile(IndexToJson(localIndex[p]))) :
        indexFile' = content

InitIndexCreate(p) ==
    /\ pc[p] = "init_index_create"
    /\ save_index_create(p, "init_index_write")

InitIndexWrite(p) ==
    /\ pc[p] = "init_index_write"
    /\ save_index_write(p)
    /\ Goto(p, "init_config_create")
    /\ UNCHANGED <<loreDir, entriesDir, configFile, gitignoreFile, entryFiles, cur, ret, localIndex, nextId, saved, inited>>

\* init, lines 76-80: the config blob (created_at is never read back)
\* A config blob without the agent id
ConfigJsonVersionOnly(agent_id) == [version |-> "0.1.0"]

\* init, lines 76-80: the config blob
ConfigJson(agent_id) ==
    [version |-> "0.1.0",
     default_agent_id |-> IF agent_id = None THEN "unknown" ELSE agent_id[1]]

\* init, line 82: File::create
InitConfigCreate(p) ==
    /\ pc[p] = "init_config_create"
    /\ configFile' = EmptyFile
    /\ Goto(p, "init_config_write")
    /\ UNCHANGED <<loreDir, entriesDir, indexFile, gitignoreFile, entryFiles, cur, ret, localIndex, nextId, saved, inited>>

\* init, line 83: write_all
InitConfigWrite(p) ==
    /\ pc[p] = "init_config_write"
    /\ \E content \in WriteAll(configFile, JsonFile(ConfigJson(cur[p].agent_id))) :
          configFile' = content
    /\ Goto(p, "init_gitignore")
    /\ UNCHANGED <<loreDir, entriesDir, indexFile, gitignoreFile, entryFiles, cur, ret, localIndex, nextId, saved, inited>>

\* init, lines 87-90: the .gitignore, then Ok
InitGitignore(p) ==
    /\ pc[p] = "init_gitignore"
    /\ gitignoreFile' = TRUE
    /\ Return(p, Ok("unit"))
    /\ inited' = inited \cup {cur[p].agent_id}
    /\ UNCHANGED <<loreDir, entriesDir, indexFile, configFile, entryFiles, cur, localIndex, nextId, saved>>

\* save_entry, lines 119-121, called on a record that ThoughtObject::new
\* has just built around a fresh uuid
Save(p, entry) ==
    /\ Invoke(p, [op |-> "Save", entry |-> entry])
    /\ nextId' = entry.id
    /\ IF ~is_initialized
       THEN Return(p, Err(NotInitialized))
       ELSE ret' = [ret EXCEPT ![p] = NoResult] /\ Goto(p, "save_entry_create")
    /\ UNCHANGED <<store, localIndex, saved, inited>>

\* save_entry, line 126: fs::write opens the record file truncating it ...
SaveEntryCreate(p) ==
    /\ pc[p] = "save_entry_create"
    /\ IF entriesDir
       THEN /\ entryFiles' = (EntryFileName(cur[p].entry.id) :> EmptyFile) @@ entryFiles
            /\ Goto(p, "save_entry_write")
            /\ UNCHANGED ret
       ELSE Return(p, Err(IoError)) /\ UNCHANGED entryFiles
    /\ UNCHANGED <<loreDir, entriesDir, indexFile, configFile, gitignoreFile, cur, localIndex, nextId, saved, inited>>

\* A save_entry that leaves the opened record file empty
SaveEntryWriteLeftOut(p) ==
    /\ pc[p] = "save_entry_write"
    /\ Goto(p, "save_load_index")
    /\ UNCHANGED <<store, cur, ret, localIndex, nextId, saved, inited>>

\* ... and then writes the serialized record
SaveEntryWrite(p) ==
    /\ pc[p] = "save_entry_write"
    /\ entryFiles' = (EntryFileName(cur[p].entry.id) :> JsonFile(ToJson(cur[p].entry))) @@ entryFiles
    /\ Goto(p, "save_load_index")
    /\ UNCHANGED <<loreDir, entriesDir, indexFile, configFile, gitignoreFile, cur, ret, localIndex, nextId, saved, inited>>

\* save_entry, lines 129-130: load_index()? and add_entry on the copy
SaveLoadIndex(p) ==
    /\ pc[p] = "save_load_index"
    /\ IF load_index.ok
       THEN /\ localIndex' = [localIndex EXCEPT ![p] =
                   add_entry(load_index.val, cur[p].entry.target_file, cur[p].entry.id)]
            /\ Goto(p, "save_index_create")
            /\ UNCHANGED ret
       ELSE Return(p, load_index) /\ UNCHANGED localIndex
    /\ UNCHANGED <<store, cur, nextId, saved, inited>>

\* save_entry, line 131: save_index
SaveIndexCreate(p) ==
    /\ pc[p] = "save_index_create"
    /\ save_index_create(p, "save_index_write")

\* save_entry, lines 131-133: the index is written and Ok returned
SaveIndexWrite(p) ==
    /\ pc[p] = "save_index_write"
    /\ save_index_write(p)
    /\ Return(p, Ok("unit"))
    /\ saved' = saved \cup {cur[p].entry}
    /\ UNCHANGED inited
    /\ UNCHANGED <<loreDir, entriesDir, configFile, gitignoreFile, entryFiles, cur, localIndex, nextId>>

\* ------------------------------------------------------------- the queries
\* A query that writes a config blob where it finds none
QueryWritingConfig(p, call, result) ==
    /\ Invoke(p, call)
    /\ Return(p, result)
    /\ configFile' = IF configFile = NoFile THEN JsonFile(ConfigJson(None)) ELSE configFile
    /\ UNCHANGED <<loreDir, entriesDir, indexFile, gitignoreFile, entryFiles, localIndex, nextId, saved, inited>>

Query(p, call, result) ==
    /\ Invoke(p, call)
    /\ Return(p, result)
    /\ UNCHANGED <<store, localIndex, nextId, saved, inited>>

LoadRecord(p, id) == Query(p, [op |-> "LoadRecord", id |-> id], load_entry(id))

GetRecordsForFile(p, file_path) ==
    Query(p, [op |-> "GetRecordsForFile", file_path |-> file_path], get_entries_for_file(file_path))

GetAllRecords(p) ==
    \E result \in {get_all_entries(order) : order \in ReadDirOrders} :
        Query(p, [op |-> "GetAllRecords"], result)

Search(p, query) ==
    \E result \in {search(query, order) : order \in ReadDirOrders} :
        Query(p, [op |-> "Search", query |-> query], result)

GetDefaultAgent(p) == Query(p, [op |-> "GetDefaultAgent"], get_default_agent_id)

\* ------------------------------------------------------------------- inputs
\* Paths as a user types them
UserPaths == {<<".", "/", "a">>, <<"b", "\\", "a">>, <<".", "\\", "a">>}

\* record.rs line 100: the target_file of a record is a normalized path
TargetFiles == {normalize_path(path) : path \in UserPaths}

AgentIds == {None, Some("my-agent")}

Intent == <<"J", "W", "T">>
Trace == <<"a", "u", "t", "h">>
Queries == {<<>>, <<"j", "w">>, <<"x">>}

\* The records the record command builds in the single-writer specification
PlainRecords(id) ==
    {ThoughtObject_new(id, target_file, "hash", "agent", timestamp, Intent, Trace) :
        target_file \in TargetFiles, timestamp \in 1..MaxTime}

\* The steps a process takes inside Initialize and Save
Step(p) ==
    \/ InitCreateLoreDir(p)
    \/ InitCreateEntriesDir(p)
    \/ InitIndexCreate(p)
    \/ InitIndexWrite(p)
    \/ InitConfigCreate(p)
    \/ InitConfigWrite(p)
    \/ InitGitignore(p)
    \/ SaveEntryCreate(p)
    \/ SaveEntryWrite(p)
    \/ SaveLoadIndex(p)
    \/ SaveIndexCreate(p)
    \/ SaveIndexWrite(p)

\* ----------------------------------------------- single-writer specification
\* One invocation of the tool at a time
Writer == 1

Next ==
    \/ \E agent_id \in AgentIds : Initialize(Writer, agent_id)
    \/ nextId < MaxSaves /\ \E entry \in PlainRecords(nextId + 1) : Save(Writer, entry)
    \/ Step(Writer)
    \/ \E id \in 1..(MaxSaves + 1) : LoadRecord(Writer, id)
    \/ \E file_path \in UserPaths \cup TargetFiles : GetRecordsForFile(Writer, file_path)
    \/ GetAllRecords(Writer)
    \/ \E query \in Queries : Search(Writer, query)
    \/ GetDefaultAgent(Writer)

Spec == Init /\ [][Next]_vars

\* --------------------------------------------------- ordering specification
\* Records of one file whose timestamps come in any order
SortRecords(id) ==
    {ThoughtObject_new(id, normalize_path(<<".", "/", "a">>), "hash", "agent", timestamp, Intent, Trace) :
        timestamp \in 1..MaxSortTime}

NextSort ==
    \/ \E agent_id \in AgentIds : Initialize(Writer, agent_id)
    \/ nextId < MaxSortSaves /\ \E entry \in SortRecords(nextId + 1) : Save(Writer, entry)
    \/ Step(Writer)
    \/ \E file_path \in UserPaths \cup TargetFiles : GetRecordsForFile(Writer, file_path)

SpecSort == Init /\ [][NextSort]_vars

\* -------------------------------------------------- concurrent specification
\* Records saved by invocations that run at the same time
ConcRecords(id) ==
    {ThoughtObject_new(id, target_file, "hash", "agent", 1, Intent, Trace) :
        target_file \in {normalize_path(<<".", "/", "a">>), normalize_path(<<"b", "\\", "a">>)}}

NextConc ==
    \E p \in Procs :
        \/ Initialize(p, None)
        \/ nextId < MaxConcSaves /\ \E entry \in ConcRecords(nextId + 1) : Save(p, entry)
        \/ Step(p)

SpecConc == Init /\ [][NextConc]_vars

\* -------------------------------------------------- round-trip specification
\* Every combination of present and absent optional fields
LineRanges == {None, Some(<<3, 1>>)}
CommitHashes == {None, Some("c0ffee")}
Alternatives ==
    {<<>>,
     <<[name |-> <<"x">>, reason |-> None]>>,
     <<[name |-> <<"x">>, reason |-> Some(<<"y">>)]>>,
     <<[name |-> <<"x">>, reason |-> Some(<<"y">>)], [name |-> <<"z">>, reason |-> None]>>}
TagLists == {<<>>, << <<"t">> >>, << <<"t">>, <<"u">> >>}

\* record.rs lines 113-129: the builders applied to a new record
Build(base, line_range, commit_hash, alternatives, tags) ==
    LET e1 == with_tags(with_rejected(base, alternatives), tags)
        e2 == IF commit_hash /= None THEN with_commit(e1, commit_hash[1]) ELSE e1
    IN  IF line_range /= None
        THEN with_line_range(e2, line_range[1][1], line_range[1][2]) ELSE e2

ShapedRecords(id) ==
    {Build(ThoughtObject_new(id, <<"a">>, "hash", "agent", 1, Intent, Trace), line_range, commit_hash, alternatives, tags) :
        line_range \in LineRanges, commit_hash \in CommitHashes,
        alternatives \in Alternatives, tags \in TagLists}

NextShapes ==
    \/ \E agent_id \in AgentIds : Initialize(Writer, agent_id)
    \/ nextId < MaxShapeSaves /\ \E entry \in ShapedRecords(nextId + 1) : Save(Writer, entry)
    \/ Step(Writer)
    \/ \E id \in 1..(MaxShapeSaves + 1) : LoadRecord(Writer, id)

SpecShapes == Init /\ [][NextShapes]_vars

\* ------------------------------------------- specification with foreign files
\* Files in the records directory that the tool did not write: a stem that
\* is no uuid, with and without the json extension
ForeignNames == {<<-1, "txt">>, <<-2, "json">>}

\* What such a file, or a damaged record file, may hold: nothing, text that
\* is no JSON, bytes that are no text, a JSON document that is no record
ForeignContents == {EmptyFile, CorruptFile, BytesFile, JsonFile([version |-> "0.1.0"])}

\* Something other than the tool writes a file in the records directory
PutFile(name, content) ==
    /\ entriesDir
    /\ entryFiles' = (name :> content) @@ entryFiles
    /\ UNCHANGED <<loreDir, entriesDir, indexFile, configFile, gitignoreFile, pc, cur, ret, localIndex, nextId, saved, inited>>

ForeignRecords(id) ==
    {ThoughtObject_new(id, normalize_path(<<".", "/", "a">>), "hash", "agent", 1, Intent, Trace)}

NextForeign ==
    \/ Initialize(Writer, None)
    \/ nextId < MaxForeignSaves /\ \E entry \in ForeignRecords(nextId + 1) : Save(Writer, entry)
    \/ Step(Writer)
    \/ \E name \in ForeignNames \cup DOMAIN entryFiles : \E content \in ForeignContents : PutFile(name, content)
    \/ \E id \in 1..(MaxForeignSaves + 1) : LoadRecord(Writer, id)
    \/ GetRecordsForFile(Writer, <<".", "/", "a">>)
    \/ GetAllRecords(Writer)

SpecForeign == Init /\ [][NextForeign]_vars

\* ---------------------------------------------- default agent specification
\* One process initializes the store; every process may ask for the agent
NextAgent ==
    \/ \E agent_id \in AgentIds : Initialize(Writer, agent_id)
    \/ Step(Writer)
    \/ nextId < MaxAgentSaves /\ \E entry \in ForeignRecords(nextId + 1) : Save(Writer, entry)
    \/ \E p \in Procs : GetDefaultAgent(p)

SpecAgent == Init /\ [][NextAgent]_vars

\* ------------------------------------------- path normalization specification
\* Every path string of up to MaxPathLen characters over dots, both
\* separators and a letter in both cases
PathChars == {".", "/", "\\", "a", "A"}
Paths == UNION {[1..n -> PathChars] : n \in 0..MaxPathLen}

\* One call of normalize_path in a process that has made no call yet
Normalize(p, path) ==
    /\ cur[p] = NoOp
    /\ Query(p, [op |-> "normalize_path", path |-> path], Ok(normalize_path(path)))

NextNormalize == \E path \in Paths : Normalize(Writer, path)

SpecNormalize == Init /\ [][NextNormalize]_vars

\* -------------------------------------------------- search specification
\* The text a search looks for, in capitals, and a text without it
Needle == <<"J", "W", "T">>
Filler == <<"o">>

\* Records that hold the needle in exactly one field, and one whose intent
\* has a capital sigma inside a word
SearchRecords(id) ==
    LET plain(target_file, agent_id, intent, trace) ==
            ThoughtObject_new(id, target_file, "hash", agent_id, 1, intent, trace)
        base == plain(Filler, Filler, Filler, Filler)
    IN  {plain(Filler, Filler, Needle, Filler),
         plain(Filler, Filler, Filler, Needle),
         plain(Needle, Filler, Filler, Filler),
         plain(Filler, Needle, Filler, Filler),
         with_rejected(base, <<[name |-> Filler, reason |-> None], [name |-> Needle, reason |-> None]>>),
         with_rejected(base, <<[name |-> Filler, reason |-> Some(Needle)]>>),
         with_tags(base, <<Filler, Needle>>),
         plain(Filler, Filler, <<"A", "Σ", "A">>, Filler)}

SearchQueries == {<<>>, <<"j", "W">>, <<"w", "t">>, <<"A", "Σ">>, <<"σ">>, <<"x">>}

NextSearch ==
    \/ Initialize(Writer, None)
    \/ nextId < MaxSearchSaves /\ \E entry \in SearchRecords(nextId + 1) : Save(Writer, entry)
    \/ Step(Writer)
    \/ \E query \in SearchQueries : Search(Writer, query)

SpecSearch == Init /\ [][NextSearch]_vars

\* ------------------------------------------------------ snippet extraction
\* A string as its UTF-8 bytes: the first byte of a character is written as
\* the character, each further byte of it as Cont
Cont == "cont"

\* char::len_utf8 of the characters the model uses
len_utf8(c) == IF c \in {"é", "U+0130", "Σ", "σ", "ς", "U+0307"} THEN 2 ELSE 1

encode_utf8(c) == <<c>> \o [k \in 1..(len_utf8(c) - 1) |-> Cont]

\* The bytes of the characters lo..hi of s, one half after the other
RECURSIVE Utf8From(_, _, _)
Utf8From(s, lo, hi) ==
    IF lo > hi THEN <<>>
    ELSE IF lo = hi THEN encode_utf8(s[lo])
    ELSE Utf8From(s, lo, (lo + hi) \div 2) \o Utf8From(s, (lo + hi) \div 2 + 1, hi)

\* str::as_bytes
as_bytes(s) == Utf8From(s, 1, Len(s))

\* str::is_char_boundary
is_char_boundary(bytes, index) ==
    \/ index = 0
    \/ index = Len(bytes)
    \/ index < Len(bytes) /\ bytes[index + 1] /= Cont

\* The byte offsets at which pat occurs in bytes
Occurrences(bytes, pat) ==
    {pos \in 0..(Len(bytes) - Len(pat)) :
        \A k \in 1..Len(pat) : bytes[pos + k] = pat[k]}

\* str::find: the byte offset of the first occurrence
find(bytes, pat) ==
    IF Occurrences(bytes, pat) = {} THEN None
    ELSE Some(CHOOSE pos \in Occurrences(bytes, pat) :
                  \A other \in Occurrences(bytes, pat) : pos <= other)

\* str::trim of a string whose only white space is the space
trim(bytes) ==
    LET kept == {i \in DOMAIN bytes : bytes[i] /= " "}
    IN  IF kept = {} THEN <<>>
        ELSE SubSeq(bytes, CHOOSE i \in kept : \A j \in kept : i <= j,
                           CHOOSE i \in kept : \A j \in kept : j <= i)

Min(a, b) == IF a < b THEN a ELSE b
saturating_sub(a, b) == IF a < b THEN 0 ELSE a - b

Ellipsis == <<".", ".", ".">>
Panic == Err("panic")

\* create_snippet, lines 126-127: the window around the match
SnippetBefore == 50
SnippetAfter == 100
\* search.rs line 89: the max_len the search command passes
SnippetMaxLen == 150

\* create_snippet, lines 140-147: the cap; String::truncate panics inside a
\* character
snippet_capped(snippet, max_len) ==
    IF Len(snippet) <= max_len THEN Ok(snippet)
    ELSE IF ~is_char_boundary(snippet, max_len) THEN Panic
    ELSE Ok(SubSeq(snippet, 1, max_len) \o Ellipsis)

\* create_snippet, lines 125-148: the query was found at byte offset pos of
\* the lowercased text; the slice panics when a bound is inside a character
\* of the text or start is after end
snippet_around(text, query, pos, max_len) ==
    LET bytes == as_bytes(text)
        start == saturating_sub(pos, SnippetBefore)
        end   == Min(pos + Len(as_bytes(query)) + SnippetAfter, Len(bytes))
    IN  IF start > end \/ ~is_char_boundary(bytes, start) \/ ~is_char_boundary(bytes, end)
        THEN Panic
        ELSE snippet_capped(
                (IF start > 0 THEN Ellipsis ELSE <<>>)
                    \o trim(replace(SubSeq(bytes, start + 1, end), "\n", " "))
                    \o (IF end < Len(bytes) THEN Ellipsis ELSE <<>>),
                max_len)

\* The first characters of the text, without the mark of a cut
snippet_without_unmarked(text, max_len) ==
    Ok(replace(as_bytes(SubSeq(text, 1, Min(max_len, Len(text)))), "\n", " "))

\* create_snippet, lines 150-158: the query was not found
snippet_without(text, max_len) ==
    Ok(replace(as_bytes(SubSeq(text, 1, Min(max_len, Len(text)))), "\n", " ")
          \o (IF Len(as_bytes(text)) > max_len THEN Ellipsis ELSE <<>>))

create_snippet(text, query, max_len) ==
    LET pos == find(as_bytes(to_lowercase(text)), as_bytes(to_lowercase(query)))
    IN  IF pos /= None
        THEN snippet_around(text, query, pos[1], max_len)
        ELSE snippet_without(text, max_len)

\* Texts: an optional first character, letters, a word, letters; the
\* numbers of letters lie within MaxSlack of 0 and of the window sizes
Heads == {<<>>, <<"é">>, <<"U+0130">>, <<"\n">>}
Words == {<<"f", "o", "x">>, <<"F", "O", "X">>}
Letters(n) == [i \in 1..n |-> "a"]
Around(n) == (0..MaxSlack) \cup {m \in (n - MaxSlack)..(n + MaxSlack) : m >= 0}
SnippetTexts ==
    {head \o Letters(before) \o word \o Letters(after) :
        head \in Heads, word \in Words,
        before \in Around(SnippetBefore), after \in Around(SnippetAfter)}
SnippetQueries == {<<"f", "o", "x">>, <<"F", "o", "X">>, <<"q">>}

\* One call of create_snippet in a process that has made no call yet
CreateSnippet(p, text, query) ==
    /\ cur[p] = NoOp
    /\ Query(p, [op |-> "create_snippet", text |-> text, query |-> query],
                create_snippet(text, query, SnippetMaxLen))

NextSnippet ==
    \E text \in SnippetTexts : \E query \in SnippetQueries : CreateSnippet(Writer, text, query)

SpecSnippet == Init /\ [][NextSnippet]_vars

\* ---------------------------------------------------------- store discovery
\* An absolute directory is the sequence of its components; the root is <<>>
DirNames == {"a", "b"}
Dirs == UNION {[1..n -> DirNames] : n \in 0..MaxDepth}

\* The sets of directories that hold a .lore
StoreSets == {D \in SUBSET Dirs : Cardinality(D) <= MaxStores}

\* A parent that is always the root
parent_root(path) == <<>>

\* Path::parent of a directory that is not the root
parent(path) == SubSeq(path, 1, Len(path) - 1)

\* find_lore_root, line 276: current = start
FindLoreRoot(p, start, stores) ==
    /\ cur[p] = NoOp
    /\ Invoke(p, [op |-> "find_lore_root", start |-> start, stores |-> stores, current |-> start])
    /\ ret' = [ret EXCEPT ![p] = NoResult] /\ Goto(p, "find_loop")
    /\ UNCHANGED <<store, localIndex, nextId, saved, inited>>

\* find_lore_root, lines 278-287: one turn of the loop; pop fails at the root
FindLoop(p) ==
    /\ pc[p] = "find_loop"
    /\ IF cur[p].current \in cur[p].stores
       THEN Return(p, Ok(Some(cur[p].current))) /\ UNCHANGED cur
       ELSE IF cur[p].current = <<>>
       THEN Return(p, Ok(None)) /\ UNCHANGED cur
       ELSE /\ cur' = [cur EXCEPT ![p].current = parent(cur[p].current)]
            /\ UNCHANGED <<pc, ret>>
    /\ UNCHANGED <<store, localIndex, nextId, saved, inited>>

NextFind ==
    \/ \E start \in Dirs : \E stores \in StoreSets : FindLoreRoot(Writer, start, stores)
    \/ FindLoop(Writer)

SpecFind == Init /\ [][NextFind]_vars /\ WF_vars(FindLoop(Writer))

\* ------------------------------------------------ search order specification
\* Records with and without the needle, at several timestamps
OrderRecords(id) ==
    {ThoughtObject_new(id, <<"a">>, "hash", "agent", timestamp, intent, Trace) :
        timestamp \in 1..MaxOrderTime, intent \in {Needle, Filler}}

NextOrder ==
    \/ Initialize(Writer, None)
    \/ nextId < MaxOrderSaves /\ \E entry \in OrderRecords(nextId + 1) : Save(Writer, entry)
    \/ Step(Writer)
    \/ GetAllRecords(Writer)
    \/ \E query \in {<<>>, <<"j", "W">>} : Search(Writer, query)

SpecOrder == Init /\ [][NextOrder]_vars

\* ------------------------------------------- specification with failing writes
\* save_index, line 113: fs::write fails to open index.json; the `?` returns
\* the error
SaveIndexCreateFails(p) ==
    /\ pc[p] = "save_index_create"
    /\ Return(p, Err(IoError))
    /\ UNCHANGED <<store, cur, localIndex, nextId, saved, inited>>

\* save_index, line 113: fs::write has opened and truncated index.json and
\* fails to write all of the new content
SaveIndexWriteFails(p) ==
    /\ pc[p] = "save_index_write"
    /\ indexFile' \in {EmptyFile, CorruptFile}
    /\ Return(p, Err(IoError))
    /\ UNCHANGED <<loreDir, entriesDir, configFile, gitignoreFile, entryFiles, cur, localIndex, nextId, saved, inited>>

\* init, lines 69-83: a call of the file system fails after .lore was made,
\* or the process is stopped there; what was created stays as it is
InitializeFails(p) ==
    /\ pc[p] \in {"init_create_entries_dir", "init_index_create", "init_index_write",
                  "init_config_create", "init_config_write"}
    /\ Return(p, Err(IoError))
    /\ UNCHANGED <<store, cur, localIndex, nextId, saved, inited>>

\* Something other than the tool leaves index.json malformed
DamageIndex ==
    /\ pc[Writer] = "idle" /\ indexFile.kind = "json"
    /\ indexFile' = CorruptFile
    /\ UNCHANGED <<loreDir, entriesDir, configFile, gitignoreFile, entryFiles, pc, cur, ret, localIndex, nextId, saved, inited>>

NextFault ==
    \/ Initialize(Writer, None)
    \/ nextId < MaxFaultSaves /\ \E entry \in ForeignRecords(nextId + 1) : Save(Writer, entry)
    \/ Step(Writer)
    \/ SaveIndexCreateFails(Writer)
    \/ SaveIndexWriteFails(Writer)
    \/ InitializeFails(Writer)
    \/ DamageIndex
    \/ GetDefaultAgent(Writer)
    \/ GetRecordsForFile(Writer, <<"a">>)
    \/ GetAllRecords(Writer)
    \/ Search(Writer, <<"j", "w">>)

SpecFault == Init /\ [][NextFault]_vars

\* ------------------------------------------------ specification of the commands
\* record.rs lines 100-132: the record command normalizes the path it was
\* given, builds the record for it and saves it
RecordFile(p, file, id) ==
    Save(p, ThoughtObject_new(id, normalize_path(file), "hash", "agent", 1, Intent, Trace))

\* explain.rs lines 18-20: the explain command normalizes the path it was
\* given and hands the result to get_entries_for_file
Explain(p, file) ==
    Query(p, [op |-> "Explain", file |-> file], get_entries_for_file(normalize_path(file)))

NextCommands ==
    \/ Initialize(Writer, None)
    \/ nextId < MaxCommandSaves /\ \E file \in UserPaths : RecordFile(Writer, file, nextId + 1)
    \/ Step(Writer)
    \/ \E file \in UserPaths : Explain(Writer, file)

SpecCommands == Init /\ [][NextCommands]_vars

\* ------------------------------------------------------------------- claims
Range(seq) == {seq[i] : i \in DOMAIN seq}

\* C1: after Save(R) has succeeded, LoadRecord(R.id) succeeds and returns a
\* record equal to R in every field, whichever optional fields R carries.
C1_SaveLoadRoundTrip ==
    /\ \A R \in saved : load_entry(R.id).ok /\ load_entry(R.id).val = R
    /\ \A p \in Procs :
          (cur[p].op = "LoadRecord" /\ \E R \in saved : R.id = cur[p].id)
              => ret[p].ok /\ ret[p].val \in saved

\* A record with every optional field present, and an alternative without a
\* reason, has been saved and loaded back unchanged
C1_Witness ==
    \E p \in Procs :
        /\ cur[p].op = "LoadRecord" /\ ret[p].ok /\ ret[p].val \in saved
        /\ ret[p].val.line_range /= None /\ ret[p].val.commit_hash /= None
        /\ Len(ret[p].val.rejected_alternatives) = 2
        /\ ret[p].val.rejected_alternatives[2].reason = None
        /\ Len(ret[p].val.tags) = 2

\* The ids an index lists
IndexedIds(index) == UNION {Range(index.files[k]) : k \in DOMAIN index.files}

\* The index that index.json holds, when it holds one
IndexPersisted == indexFile.kind = "json" /\ IndexFromJson(indexFile.doc).ok
PersistedIndex == IndexFromJson(indexFile.doc).val

\* Process p has returned Ok from a Save and has started nothing since
SavedOk(p) == pc[p] = "idle" /\ cur[p].op = "Save" /\ ret[p].ok

\* C2: two Saves of records with distinct ids that run at the same time can
\* both return success while the final index lists only one of the two ids:
\* when each of them loaded the index before the other wrote it, the index
\* written last replaces the other one whole.
C2_LastWriterWins ==
    \A p, q \in Procs :
        (/\ p /= q /\ SavedOk(p) /\ SavedOk(q)
         /\ cur[q].entry.id \notin IndexedIds(localIndex[p])
         /\ cur[p].entry.id \notin IndexedIds(localIndex[q]))
        => ~(IndexPersisted /\ {cur[p].entry.id, cur[q].entry.id} \subseteq IndexedIds(PersistedIndex))

\* Both Saves have returned Ok, both record files are there, and the index
\* lists one id only
C2_Witness ==
    \E p, q \in Procs :
        /\ p /= q /\ SavedOk(p) /\ SavedOk(q)
        /\ \A r \in Procs : pc[r] = "idle"
        /\ {cur[p].entry, cur[q].entry} \subseteq saved
        /\ cur[q].entry.id \notin IndexedIds(localIndex[p])
        /\ cur[p].entry.id \notin IndexedIds(localIndex[q])
        /\ IndexPersisted
        /\ cur[q].entry.id \in IndexedIds(PersistedIndex)
        /\ cur[p].entry.id \notin IndexedIds(PersistedIndex)
        /\ PersistedIndex.entry_count = 1

\* C3: however Saves of records with distinct ids interleave, every record
\* whose Save returned Ok keeps its own record file, is returned by
\* GetAllRecords, and is listed under its target_file by an index rebuilt
\* from a scan of the records directory.
C3_RecordsSurvive ==
    saved /= {} =>
        /\ \A R \in saved :
              /\ EntryFileName(R.id) \in DOMAIN entryFiles
              /\ ParseEntry(entryFiles[EntryFileName(R.id)]) = Ok(R)
        /\ \A order \in ReadDirOrders :
              LET all == get_all_entries(order)
                  rebuilt == IndexOf(all.val).files
              IN  /\ all.ok
                  /\ saved \subseteq Range(all.val)
                  /\ \A R \in saved :
                        R.target_file \in DOMAIN rebuilt /\ R.id \in Range(rebuilt[R.target_file])

\* All Saves have returned, the index file has lost an entry, and the scan
\* still finds every saved record
C3_Witness ==
    /\ \A p \in Procs : pc[p] = "idle"
    /\ Cardinality(saved) = 2
    /\ IndexPersisted
    /\ \E R \in saved : R.id \notin IndexedIds(PersistedIndex)
    /\ \A order \in ReadDirOrders : saved \subseteq Range(get_all_entries(order).val)

\* C4: after N successful Saves issued one after another on a freshly
\* initialized store, the persisted index has entry_count = N and as many
\* keys as there are distinct target_file values among the saved records.
C4_IndexCounts ==
    (pc[Writer] = "idle" /\ IndexPersisted)
        => /\ PersistedIndex.entry_count = Cardinality(saved)
           /\ Cardinality(DOMAIN PersistedIndex.files) = Cardinality({R.target_file : R \in saved})

\* Two Saves against two distinct files have returned
C4_Witness ==
    /\ pc[Writer] = "idle" /\ IndexPersisted
    /\ Cardinality(saved) = 2
    /\ Cardinality({R.target_file : R \in saved}) = 2
    /\ PersistedIndex.entry_count = 2

\* C5: once a record has been saved, no later step of any store operation
\* changes what LoadRecord of its id returns, and the record file named by
\* an id holds the record with that id and no other.
C5_SavedRecordsImmutable ==
    /\ [][\A R \in saved : load_entry(R.id) = Ok(R) /\ load_entry(R.id)' = Ok(R)]_vars
    /\ [](\A name \in DOMAIN entryFiles :
             ParseEntry(entryFiles[name]).ok
                 => name = EntryFileName(ParseEntry(entryFiles[name]).val.id))

\* A saved record is loaded back after a later Save for the same file
C5_Witness ==
    /\ cur[Writer].op = "LoadRecord" /\ ret[Writer].ok
    /\ ret[Writer].val \in saved /\ ret[Writer].val.id = 1
    /\ \E R \in saved : R.id /= 1 /\ R.target_file = ret[Writer].val.target_file

\* Process p makes the first step of the operation named op
Calls(p, op) ==
    /\ pc[p] = "idle" /\ cur'[p].op = op
    /\ <<pc[p], cur[p], ret[p]>> /= <<pc'[p], cur'[p], ret'[p]>>

\* C6: Initialize on a root whose store directory exists fails with
\* AlreadyInitialized and leaves the index, the config blob and every
\* record file as they were.
C6_InitializeTwice ==
    [][\A p \in Procs :
          (loreDir /\ Calls(p, "Initialize"))
              => store' = store /\ pc'[p] = "idle" /\ ret'[p] = Err(AlreadyInitialized)]_vars

\* Initialize has failed on a store that holds a record
C6_Witness ==
    /\ pc[Writer] = "idle" /\ cur[Writer].op = "Initialize"
    /\ ret[Writer] = Err(AlreadyInitialized)
    /\ saved /= {} /\ IndexPersisted /\ PersistedIndex.entry_count > 0

\* C7: where no store exists, Save, LoadRecord, GetRecordsForFile,
\* GetAllRecords and Search fail with NotInitialized and create nothing;
\* only a step of Initialize changes a root that has no store.
C7_NotInitialized ==
    [][~loreDir =>
          /\ \A p \in Procs :
                \A op \in {"Save", "LoadRecord", "GetRecordsForFile", "GetAllRecords", "Search"} :
                    Calls(p, op) => store' = store /\ pc'[p] = "idle" /\ ret'[p] = Err(NotInitialized)
          /\ store' /= store => \E p \in Procs : cur[p].op = "Initialize" /\ pc[p] /= "idle"]_vars

\* A Save has failed on a root without a store, which is still empty
C7_Witness ==
    /\ ~loreDir /\ ~entriesDir /\ indexFile = NoFile /\ entryFiles = EmptyObject
    /\ pc[Writer] = "idle" /\ cur[Writer].op = "Save"
    /\ ret[Writer] = Err(NotInitialized)

IsSortedDesc(entries) ==
    \A i, j \in DOMAIN entries : i < j => entries[i].timestamp >= entries[j].timestamp

\* The saved records of the file that a query path names
SavedFor(file_path) == {R \in saved : R.target_file = normalize_path(file_path)}

\* C8: GetRecordsForFile returns the records of the file, all of them, in
\* non-increasing timestamp order whatever order they were saved in; three
\* records with timestamps t1 < t2 < t3 come back as [t3, t2, t1].
C8_NewestFirst ==
    /\ \A p \in Procs :
          (cur[p].op = "GetRecordsForFile" /\ ret[p].ok) => IsSortedDesc(ret[p].val)
    /\ pc[Writer] = "idle" =>
          \A file_path \in UserPaths \cup TargetFiles :
              get_entries_for_file(file_path).ok =>
                  /\ IsSortedDesc(get_entries_for_file(file_path).val)
                  /\ Range(get_entries_for_file(file_path).val) = SavedFor(file_path)
                  /\ Len(get_entries_for_file(file_path).val) = Cardinality(SavedFor(file_path))

\* Three records saved with timestamps 1, 3, 2 in that order come back as
\* [3, 2, 1]
C8_Witness ==
    /\ cur[Writer].op = "GetRecordsForFile" /\ ret[Writer].ok
    /\ Len(ret[Writer].val) = 3
    /\ [i \in 1..3 |-> ret[Writer].val[i].timestamp] = <<3, 2, 1>>
    /\ [i \in 1..3 |-> ret[Writer].val[i].id] = <<2, 3, 1>>

\* C9: a record saved under a normalized target_file T is returned by
\* GetRecordsForFile(P) for every path P whose normalization is T.
C9_LookupNormalizes ==
    pc[Writer] = "idle" =>
        \A R \in saved : \A file_path \in UserPaths \cup TargetFiles :
            normalize_path(file_path) = R.target_file
                => /\ get_entries_for_file(file_path).ok
                   /\ R \in Range(get_entries_for_file(file_path).val)

\* A record saved for "b/a" has been looked up as "b\a"
C9_Witness ==
    /\ cur[Writer].op = "GetRecordsForFile" /\ ret[Writer].ok
    /\ cur[Writer].file_path = <<"b", "\\", "a">>
    /\ \E R \in saved : R.target_file = <<"b", "/", "a">> /\ R \in Range(ret[Writer].val)

\* C10: on an initialized store, GetRecordsForFile of a path without an
\* index entry returns the empty sequence and no error, whatever has been
\* saved for other files.
C10_UnknownPathIsEmpty ==
    (pc[Writer] = "idle" /\ is_initialized) =>
        /\ load_index.ok
        /\ \A file_path \in UserPaths \cup TargetFiles :
              normalize_path(file_path) \notin DOMAIN load_index.val.files
                  => get_entries_for_file(file_path) = Ok(<<>>)

\* A path nothing was saved for has been looked up in a store that holds
\* records of the two other files
C10_Witness ==
    /\ pc[Writer] = "idle" /\ cur[Writer].op = "GetRecordsForFile" /\ ret[Writer] = Ok(<<>>)
    /\ IndexPersisted /\ Cardinality(DOMAIN PersistedIndex.files) = 2
    /\ normalize_path(cur[Writer].file_path) \notin DOMAIN PersistedIndex.files

\* C11: GetRecordsForFile never de-duplicates: of k records with distinct
\* ids saved for one file, records with equal timestamps among them, it
\* returns every one exactly once.
C11_NoDeduplication ==
    \A p \in Procs :
        (pc[p] = "idle" /\ cur[p].op = "GetRecordsForFile" /\ ret[p].ok)
            => /\ Len(ret[p].val) = Cardinality(SavedFor(cur[p].file_path))
               /\ \A R \in SavedFor(cur[p].file_path) :
                     Cardinality({i \in DOMAIN ret[p].val : ret[p].val[i] = R}) = 1

\* Three records of one file, two of them with the same timestamp, have
\* all been returned
C11_Witness ==
    /\ pc[Writer] = "idle" /\ cur[Writer].op = "GetRecordsForFile" /\ ret[Writer].ok
    /\ Len(ret[Writer].val) = 3
    /\ ret[Writer].val[1].timestamp = ret[Writer].val[2].timestamp
    /\ ret[Writer].val[1].id /= ret[Writer].val[2].id
    /\ ret[Writer].val[3].timestamp < ret[Writer].val[2].timestamp

\* The store is initialized and nothing is being written by the tool
Settled == pc[Writer] = "idle" /\ loreDir /\ entriesDir /\ IndexPersisted

\* The records that the *.json files of the records directory hold
ValidRecords ==
    {ParseEntry(entryFiles[name]).val :
        name \in {n \in DOMAIN entryFiles : n[2] = "json" /\ ParseEntry(entryFiles[n]).ok}}

\* C12: on an initialized store whose records directory holds valid record
\* files and files that are no valid records, GetAllRecords and
\* GetRecordsForFile both succeed and return the valid records concerned.
C12_BulkQueriesSkipBadFiles ==
    [][\A p \in Procs :
          /\ (Settled /\ Calls(p, "GetAllRecords"))
                => ret'[p].ok /\ Range(ret'[p].val) = ValidRecords
          /\ (Settled /\ Calls(p, "GetRecordsForFile"))
                => /\ ret'[p].ok
                   /\ Range(ret'[p].val) =
                         {R \in ValidRecords :
                             /\ R.target_file = normalize_path(cur'[p].file_path)
                             /\ R.id \in IndexedIds(PersistedIndex)
                             /\ EntryFileName(R.id) \in DOMAIN entryFiles
                             /\ ParseEntry(entryFiles[EntryFileName(R.id)]) = Ok(R)}]_vars

\* The part of C12 that the code keeps: GetRecordsForFile
ForFileSkipsBadFiles ==
    [][\A p \in Procs :
          (Settled /\ Calls(p, "GetRecordsForFile"))
                => /\ ret'[p].ok
                   /\ Range(ret'[p].val) =
                         {R \in ValidRecords :
                             /\ R.target_file = normalize_path(cur'[p].file_path)
                             /\ R.id \in IndexedIds(PersistedIndex)
                             /\ EntryFileName(R.id) \in DOMAIN entryFiles
                             /\ ParseEntry(entryFiles[EntryFileName(R.id)]) = Ok(R)}]_vars

\* C13 as stated: on an initialized store LoadRecord(id) fails with
\* NotFound when no record file exists for id, fails with a deserialization
\* error when the file exists but is not a valid record, and returns the
\* record otherwise.
C13_LoadRecordStrict ==
    [][\A p \in Procs :
          (loreDir /\ Calls(p, "LoadRecord")) =>
              LET name == EntryFileName(cur'[p].id) IN
              IF name \notin DOMAIN entryFiles THEN ret'[p] = Err(FileNotFound)
              ELSE IF ~ParseEntry(entryFiles[name]).ok THEN ret'[p] = Err(JsonError)
              ELSE ret'[p] = ParseEntry(entryFiles[name])]_vars

\* C13, amended: on an initialized store LoadRecord(id) fails with NotFound
\* when no record file exists for id, fails with an I/O error when the file
\* exists but its bytes are no text, fails with a deserialization error when
\* the file is text but not a valid record, and returns the record of the
\* file otherwise; it never answers with a default and changes nothing.
C13_LoadRecordStrictAmended ==
    [][\A p \in Procs :
          (loreDir /\ Calls(p, "LoadRecord")) =>
              LET name == EntryFileName(cur'[p].id) IN
              /\ store' = store
              /\ IF name \notin DOMAIN entryFiles THEN ret'[p] = Err(FileNotFound)
                 ELSE IF entryFiles[name] = BytesFile THEN ret'[p] = Err(IoError)
                 ELSE IF ~ParseEntry(entryFiles[name]).ok THEN ret'[p] = Err(JsonError)
                 ELSE ret'[p] = ParseEntry(entryFiles[name])]_vars

\* A record was saved, its file was damaged afterwards, and LoadRecord of
\* its id has failed: with an I/O error for bytes that are no text
C13_Witness ==
    /\ pc[Writer] = "idle" /\ cur[Writer].op = "LoadRecord"
    /\ \E R \in saved : R.id = cur[Writer].id
    /\ EntryFileName(cur[Writer].id) \in DOMAIN entryFiles
    /\ entryFiles[EntryFileName(cur[Writer].id)] = BytesFile
    /\ ret[Writer] = Err(IoError)

\* Two characters are the same letter when case is left aside
Fold(c) ==
    CASE c \in {"A", "a"} -> "a"
      [] c \in {"J", "j"} -> "j"
      [] c \in {"W", "w"} -> "w"
      [] c \in {"T", "t"} -> "t"
      [] c \in {"F", "f"} -> "f"
      [] c \in {"O", "o"} -> "o"
      [] c \in {"X", "x"} -> "x"
      [] c \in {"Σ", "σ", "ς"} -> "σ"
      [] OTHER -> c

\* q occurs in text when the case of the letters is left aside
ContainsIgnoringCase(text, q) ==
    \E start \in 0..Len(text) :
        /\ start + Len(q) <= Len(text)
        /\ \A k \in 1..Len(q) : Fold(text[start + k]) = Fold(q[k])

SearchedFields(R) ==
    {R.intent, R.reasoning_trace}
        \cup {R.rejected_alternatives[i].name : i \in DOMAIN R.rejected_alternatives}
        \cup Range(R.tags)

\* C14: Search(q) returns exactly the records for which q, compared
\* case-insensitively, is a substring of the intent, of the reasoning_trace,
\* of the name of a rejected alternative or of a tag.
C14_SearchMatches ==
    [][\A p \in Procs :
          (loreDir /\ Calls(p, "Search")) =>
              /\ ret'[p].ok
              /\ Range(ret'[p].val) =
                    {R \in ValidRecords :
                        \E text \in SearchedFields(R) : ContainsIgnoringCase(text, cur'[p].query)}]_vars

\* C14 holds of the queries and records without a capital sigma
SearchMatchesWithoutSigma ==
    [][\A p \in Procs :
          (loreDir /\ Calls(p, "Search") /\ "Σ" \notin Range(cur'[p].query)) =>
              /\ ret'[p].ok
              /\ Range(ret'[p].val) =
                    {R \in ValidRecords :
                        \E text \in SearchedFields(R) : ContainsIgnoringCase(text, cur'[p].query)}]_vars

AgentOr(agent_id) == IF agent_id = None THEN "unknown" ELSE agent_id[1]

\* C15: GetDefaultAgent returns the agent id that was passed to Initialize,
\* and returns "unknown" without failing when Initialize was given no agent
\* id or when the store or its config blob is absent.
C15_DefaultAgent ==
    [][\A p \in Procs :
          Calls(p, "GetDefaultAgent") =>
              /\ store' = store
              /\ (~loreDir \/ configFile = NoFile) => ret'[p] = Ok("unknown")
              /\ \A agent_id \in inited : ret'[p] = Ok(AgentOr(agent_id))]_vars

\* The agent id given to Initialize has come back
C15_Witness ==
    /\ inited = {Some("my-agent")}
    /\ pc[Writer] = "idle" /\ cur[Writer].op = "GetDefaultAgent"
    /\ ret[Writer] = Ok("my-agent")

\* In a store that is being initialized and has no config blob yet,
\* another process was answered with "unknown"
DefaultAgentWithoutConfig ==
    /\ loreDir /\ configFile = NoFile
    /\ cur[2].op = "GetDefaultAgent" /\ ret[2] = Ok("unknown")

\* C16: path normalization is idempotent: normalizing a normalized path
\* gives the same path.
C16_NormalizeIdempotent ==
    \A p \in Procs :
        cur[p].op = "normalize_path" => normalize_path(ret[p].val) = ret[p].val

\* The path from position 1 + k on, every backslash made a forward slash
Rewritten(P, k) ==
    [i \in 1..(Len(P) - k) |-> IF P[k + i] = "\\" THEN "/" ELSE P[k + i]]

\* P starts with n repetitions of "./"
StartsWithDotSlashes(P, n) ==
    /\ 2 * n <= Len(P)
    /\ \A j \in 1..n : P[2 * j - 1] = "." /\ P[2 * j] = "/"

\* C17 as stated: normalize(P) removes exactly one leading "./" when P
\* starts with one, replaces every backslash by a forward slash and changes
\* nothing else of P; a second leading "./" is kept.
C17_StripsOneDotSlash ==
    \A p \in Procs :
        cur[p].op = "normalize_path" =>
            ret[p].val = Rewritten(cur[p].path, IF StartsWithDotSlashes(cur[p].path, 1) THEN 2 ELSE 0)

\* C17, amended: normalize(P) removes every repetition of "./" that P starts
\* with, replaces every backslash of the rest by a forward slash and changes
\* nothing else of P: ".." segments, later "./" segments and letter case
\* are kept.
C17_StripsLeadingDotSlashes ==
    \A p \in Procs :
        cur[p].op = "normalize_path" =>
            LET P == cur[p].path
                n == CHOOSE n \in 0..Len(P) :
                        StartsWithDotSlashes(P, n) /\ ~StartsWithDotSlashes(P, n + 1)
            IN  ret[p].val = Rewritten(P, 2 * n)

\* "././\" has been normalized to "/"
C17_Witness ==
    /\ cur[Writer].op = "normalize_path"
    /\ cur[Writer].path = <<".", "/", ".", "/", "\\">>
    /\ ret[Writer] = Ok(<<"/">>)

IsPrefix(s, t) == Len(s) <= Len(t) /\ \A i \in 1..Len(s) : s[i] = t[i]

\* C18: for every text and every query that occurs in the text
\* case-insensitively, the excerpt of create_snippet with the cap of 150
\* contains the query and is no longer than the text.
C18_SnippetContainsQuery ==
    \A p \in Procs :
        (/\ cur[p].op = "create_snippet"
         /\ ContainsIgnoringCase(as_bytes(cur[p].text), as_bytes(cur[p].query)))
            => /\ ret[p].ok
               /\ ContainsIgnoringCase(ret[p].val, as_bytes(cur[p].query))
               /\ Len(ret[p].val) <= Len(as_bytes(cur[p].text))

C20_SnippetNeverAborts ==
    \A p \in Procs : cur[p].op = "create_snippet" => ret[p].ok

\* The start directory and its ancestors
Ancestors(start) == {SubSeq(start, 1, k) : k \in 0..Len(start)}

\* C21: store discovery from a start directory always terminates and returns
\* the nearest directory, among the start directory and its ancestors, that
\* contains .lore; it returns none exactly when none of them contains it.
C21_FindsNearestStore ==
    /\ [](\A p \in Procs :
            (pc[p] = "idle" /\ cur[p].op = "find_lore_root") =>
                LET holders == Ancestors(cur[p].start) \cap cur[p].stores IN
                /\ ret[p].ok
                /\ (ret[p].val = None) <=> (holders = {})
                /\ \A found \in holders :
                      /\ ret[p].val[1] \in holders
                      /\ Len(found) <= Len(ret[p].val[1]))
    /\ \A p \in Procs : (pc[p] = "find_loop") ~> (pc[p] = "idle")

\* Discovery that started two levels below the root, with a .lore in the
\* root and one a level above the start, has returned that nearer one
C21_Witness ==
    /\ pc[Writer] = "idle" /\ cur[Writer].op = "find_lore_root"
    /\ cur[Writer].start = <<"a", "b">>
    /\ cur[Writer].stores = {<<>>, <<"a">>}
    /\ ret[Writer] = Ok(Some(<<"a">>))

\* sub holds, in the order of all, the records of all that it holds at all
IsSubsequence(sub, all) == sub = SelectSeq(all, LAMBDA e : e \in Range(sub))

\* C22: Search(q) returns its matches in the order GetAllRecords would
\* return them on the same store: the result is the subsequence of the
\* matching records of a GetAllRecords sequence, newest first.
C22_SearchKeepsOrder ==
    [][\A p \in Procs :
          (Calls(p, "Search") /\ ret'[p].ok) =>
              /\ IsSortedDesc(ret'[p].val)
              /\ \E order \in ReadDirOrders :
                    LET all == get_all_entries(order) IN
                    /\ all.ok
                    /\ IsSubsequence(ret'[p].val, all.val)
                    /\ Range(ret'[p].val) =
                          {R \in Range(all.val) : Matches(R, to_lowercase(cur'[p].query))}]_vars

\* Of three records, the two with the needle have come back, the newer
\* first, without the record of the newer timestamp that has no needle
C22_Witness ==
    /\ pc[Writer] = "idle" /\ cur[Writer].op = "Search" /\ cur[Writer].query = <<"j", "W">>
    /\ Cardinality(saved) = 3
    /\ ret[Writer].ok /\ Len(ret[Writer].val) = 2
    /\ ret[Writer].val[1].timestamp > ret[Writer].val[2].timestamp
    /\ ret[Writer].val[1].id > ret[Writer].val[2].id
    /\ \E R \in saved : R.intent = Filler /\ R.timestamp = ret[Writer].val[1].timestamp

\* C23: in every reachable state of the store, also between the two writes
\* of a Save, after a Save that went no further and under any interleaving
\* of concurrent Saves of records with distinct ids, every id that the index
\* lists under a key K has a record file whose target_file is K.
C23_IndexedIdsHaveFiles ==
    IndexPersisted =>
        \A K \in DOMAIN PersistedIndex.files :
            \A id \in Range(PersistedIndex.files[K]) :
                /\ EntryFileName(id) \in DOMAIN entryFiles
                /\ ParseEntry(entryFiles[EntryFileName(id)]).ok
                /\ ParseEntry(entryFiles[EntryFileName(id)]).val.id = id
                /\ ParseEntry(entryFiles[EntryFileName(id)]).val.target_file = K

\* One Save stands between its two writes, with its record file written and
\* its id not in the index, which lists the id of another Save
C23_Witness ==
    \E p \in Procs :
        /\ pc[p] \in {"save_load_index", "save_index_create"}
        /\ ParseEntry(entryFiles[EntryFileName(cur[p].entry.id)]) = Ok(cur[p].entry)
        /\ IndexPersisted
        /\ cur[p].entry.id \notin IndexedIds(PersistedIndex)
        /\ IndexedIds(PersistedIndex) /= {}

\* The places of the id lists of an index: a key and a position in its list
IndexPlaces(index) ==
    UNION {{<<K, i>> : i \in DOMAIN index.files[K]} : K \in DOMAIN index.files}

\* C24: in every index file written by Initialize or Save, under any
\* sequence or interleaving of those operations, entry_count equals the sum
\* of the lengths of the id lists over all keys of index.files.
C24_CountIsSumOfLists ==
    IndexPersisted => PersistedIndex.entry_count = Cardinality(IndexPlaces(PersistedIndex))

\* Two concurrent processes have saved for the same file, and the index
\* lists both ids under its one key
C24_Witness ==
    /\ IndexPersisted
    /\ Cardinality(DOMAIN PersistedIndex.files) = 1
    /\ PersistedIndex.entry_count = 2
    /\ \E p, q \in Procs : p /= q /\ SavedOk(p) /\ SavedOk(q)

\* C25: under any interleaving of Initialize and Save invocations of
\* concurrent processes on the same root, once a Save has written an id into
\* the index, no step of an Initialize invocation takes that id out of the
\* index.
C25_InitializeKeepsIndex ==
    [][\A p \in Procs :
          (/\ cur[p].op = "Initialize" /\ pc[p] /= "idle" /\ pc'[p] /= pc[p]
           /\ IndexPersisted /\ IndexedIds(PersistedIndex) /= {})
              => /\ IndexPersisted'
                 /\ IndexedIds(PersistedIndex) \subseteq IndexedIds(PersistedIndex')]_vars

\* Process p returns a failure from the step it takes at label
FailsAt(p, label) == pc[p] = label /\ pc'[p] = "idle" /\ ~ret'[p].ok

\* The record is in the record files: the scan and a search for a word of
\* its intent return it, the lookup by its file does not
OnlyScanned(R) ==
    /\ \A order \in ReadDirOrders :
          /\ get_all_entries(order).ok /\ R \in Range(get_all_entries(order).val)
          /\ search(<<"j", "w">>, order).ok /\ R \in Range(search(<<"j", "w">>, order).val)
    /\ get_entries_for_file(R.target_file).ok
          => R \notin Range(get_entries_for_file(R.target_file).val)

\* C26: a Save that fails while loading or rewriting the index has written
\* its record file and does not remove it: after the failed Save the record
\* is returned by GetAllRecords and Search but not by GetRecordsForFile, and
\* the index is as it was when the Save began.
C26_FailedSaveKeepsRecord ==
    [][\A p \in Procs :
          /\ FailsAt(p, "save_load_index")
                => OnlyScanned(cur[p].entry)' /\ indexFile' = indexFile
          /\ (FailsAt(p, "save_index_create") \/ FailsAt(p, "save_index_write"))
                => /\ OnlyScanned(cur[p].entry)'
                   /\ load_index'.ok
                   /\ add_entry(load_index'.val, cur[p].entry.target_file, cur[p].entry.id)
                         = localIndex[p]
          /\ (cur[p].op = "Save" /\ pc[p] \in {"save_entry_create", "save_entry_write"})
                => indexFile' = indexFile]_vars

\* The part of C26 that holds: the record of a failed Save stays in the
\* record files, and the index is as it was unless the failure came after
\* index.json was opened
FailedSaveKeepsRecord ==
    [][\A p \in Procs :
          /\ FailsAt(p, "save_load_index")
                => OnlyScanned(cur[p].entry)' /\ indexFile' = indexFile
          /\ FailsAt(p, "save_index_create")
                => /\ OnlyScanned(cur[p].entry)'
                   /\ load_index'.ok
                   /\ add_entry(load_index'.val, cur[p].entry.target_file, cur[p].entry.id)
                         = localIndex[p]
          /\ FailsAt(p, "save_index_write") => OnlyScanned(cur[p].entry)'
          /\ (cur[p].op = "Save" /\ pc[p] \in {"save_entry_create", "save_entry_write"})
                => indexFile' = indexFile]_vars

\* An Initialize has made the store directory and has ended before the index
\* and the config blob were written
InitializeCutShort ==
    /\ pc[Writer] = "idle" /\ loreDir
    /\ indexFile.kind /= "json" /\ configFile.kind /= "json"

\* C29: if Initialize creates the store directory but fails or is
\* interrupted before it has written the index and the config blob, the root
\* still counts as initialized: every later Initialize fails with
\* AlreadyInitialized and writes none of the missing files, loading the
\* index yields an empty index, and GetDefaultAgent returns "unknown".
C29_CutShortInitialize ==
    [][\A p \in Procs :
          /\ (FailsAt(p, "init_create_entries_dir") \/ FailsAt(p, "init_index_create")
              \/ FailsAt(p, "init_index_write") \/ FailsAt(p, "init_config_create")
              \/ FailsAt(p, "init_config_write"))
                => (InitializeCutShort'
                      => /\ load_index' = Ok(LoreIndex_new)
                         /\ get_default_agent_id' = Ok("unknown"))
          /\ (InitializeCutShort /\ Calls(p, "Initialize"))
                => ret'[p] = Err(AlreadyInitialized) /\ store' = store /\ pc'[p] = "idle"
          /\ (InitializeCutShort /\ Calls(p, "GetDefaultAgent"))
                => ret'[p] = Ok("unknown")]_vars

\* The part of C29 that holds: an Initialize that ended before it opened
\* index.json leaves a root that refuses Initialize, has an empty index and
\* the agent "unknown"
CutShortBeforeIndex ==
    [][\A p \in Procs :
          /\ (FailsAt(p, "init_create_entries_dir") \/ FailsAt(p, "init_index_create"))
                => /\ InitializeCutShort'
                   /\ load_index' = Ok(LoreIndex_new)
                   /\ get_default_agent_id' = Ok("unknown")
          /\ (InitializeCutShort /\ Calls(p, "Initialize"))
                => ret'[p] = Err(AlreadyInitialized) /\ store' = store /\ pc'[p] = "idle"
          /\ (InitializeCutShort /\ indexFile = NoFile /\ configFile = NoFile
                /\ Calls(p, "GetDefaultAgent"))
                => ret'[p] = Ok("unknown")]_vars

\* C27: in a store written by a single writer through successful Saves of
\* records with distinct ids and normalized target_file values, the index
\* view and the scan view agree: GetRecordsForFile(P) returns the same
\* multiset of records as the records of GetAllRecords whose target_file
\* equals normalize(P).
C27_IndexAndScanAgree ==
    [][\A p \in Procs :
          (Calls(p, "GetRecordsForFile") /\ ret'[p].ok) =>
              \A order \in ReadDirOrders :
                  LET all  == get_all_entries(order)
                      key  == normalize_path(cur'[p].file_path)
                      same == {i \in DOMAIN all.val : all.val[i].target_file = key}
                  IN  /\ all.ok
                      /\ Len(ret'[p].val) = Cardinality(same)
                      /\ \A i \in same :
                            Cardinality({j \in DOMAIN ret'[p].val : ret'[p].val[j] = all.val[i]})
                                = Cardinality({j \in same : all.val[j] = all.val[i]})]_vars

\* Two records of one file have been looked up in a store that holds them
C27_Witness ==
    /\ pc[Writer] = "idle" /\ cur[Writer].op = "GetRecordsForFile" /\ ret[Writer].ok
    /\ Len(ret[Writer].val) = 2 /\ Cardinality(saved) = 2
    /\ cur[Writer].file_path /= normalize_path(cur[Writer].file_path)

\* C28: write and read use the same index key for the same user input:
\* after the record command has saved a record for a path P, the explain
\* command given the same P returns that record.
C28_ExplainFindsRecorded ==
    [][\A p \in Procs :
          Calls(p, "Explain") =>
              \A R \in saved :
                  R.target_file = normalize_path(cur'[p].file)
                      => ret'[p].ok /\ R \in Range(ret'[p].val)]_vars

\* The part of C28 that holds: the paths that normalize to a fixed point of
\* normalize_path
ExplainFindsRecordedFixedPoint ==
    [][\A p \in Procs :
          (/\ Calls(p, "Explain")
           /\ normalize_path(normalize_path(cur'[p].file)) = normalize_path(cur'[p].file)) =>
              \A R \in saved :
                  R.target_file = normalize_path(cur'[p].file)
                      => ret'[p].ok /\ R \in Range(ret'[p].val)]_vars

\* C30: the read operations LoadRecord, GetRecordsForFile, GetAllRecords,
\* Search and GetDefaultAgent leave the store unchanged whether they succeed
\* or fail: the index file, the config blob and the record files are the
\* same after the call as before it.
C30_ReadsChangeNothing ==
    [][\A p \in Procs :
          \A op \in {"LoadRecord", "GetRecordsForFile", "GetAllRecords", "Search", "GetDefaultAgent"} :
              Calls(p, op) =>
                  /\ store' = store
                  /\ pc'[p] = "idle"]_vars

\* A LoadRecord of an id without a record file has failed in a store that
\* holds a record
C30_Witness ==
    /\ pc[Writer] = "idle" /\ cur[Writer].op = "LoadRecord"
    /\ ret[Writer] = Err(FileNotFound)
    /\ saved /= {} /\ IndexPersisted /\ configFile.kind = "json"
    /\ EntryFileName(1) \in DOMAIN entryFiles

====
